---------------------------- MODULE Spec2Model ----------------------------
(***************************************************************************)
(* Model of src/src/matcher.py: the name normaliser                        *)
(* baseline_normalize_name and the reconciliation function match_records   *)
(* (three matchers, aggregation, unmatched sets, remainder records).       *)
(*                                                                         *)
(* Text is a sequence of one-character strings.  A table cell read by      *)
(* pandas with dtype=str is either a str or the float NaN (an empty cell). *)
(* Amounts are floats after pd.to_numeric(errors="coerce"): a number or    *)
(* NaN; numbers are counted in units of 0.005 so that the 1e-2 tolerance   *)
(* is 2 units.  Dates are Timestamps after pd.to_datetime(errors="coerce") *)
(* of calendar dates: a day number or NaT.  Confidences are in tenths.     *)
(***************************************************************************)
EXTENDS Integers, Sequences, FiniteSets, TLC

VARIABLES
    invoices,            \* the invoices table, a sequence of rows
    payments,            \* the payments table, a sequence of rows
    has_memo,            \* the payments table has a "memo" column
    has_reference_number,\* the payments table has a "reference_number" column
    matches,             \* the list of candidate dicts (line 64)
    matches_df,          \* the aggregated frame (lines 120-123)
    unmatched_payments,  \* line 128
    unmatched_invoices,  \* line 129
    remaining_records,   \* line 132
    pc,                  \* position inside match_records
    name,                \* argument of a stand-alone baseline_normalize_name call
    once,                \* its result
    twice,               \* the result of normalising that result again
    npc                  \* position of the stand-alone normaliser run

vars == <<invoices, payments, has_memo, has_reference_number, matches,
          matches_df, unmatched_payments, unmatched_invoices,
          remaining_records, pc, name, once, twice, npc>>

matcherVars == <<invoices, payments, has_memo, has_reference_number, matches,
                 matches_df, unmatched_payments, unmatched_invoices,
                 remaining_records, pc>>

normVars == <<name, once, twice, npc>>

-----------------------------------------------------------------------------
(* Bounds of the model                                                     *)

MaxFrags == 4

MaxPayments == 2

MaxInvoices == 2

-----------------------------------------------------------------------------
(* Cells and text                                                          *)

\* A cell holding the str s.
Str(s) == [isStr |-> TRUE, s |-> s]

\* An empty cell: pandas reads it as float NaN, which is not a str.
NaNCell == [isStr |-> FALSE, s |-> <<>>]

\* Python str(x) of a cell: a str is itself, float NaN prints as "nan".
str(x) == IF x.isStr THEN x.s ELSE <<"n", "a", "n">>

RECURSIVE Concat(_)
Concat(ss) == IF ss = <<>> THEN <<>> ELSE Head(ss) \o Concat(Tail(ss))

StartsWith(s, p) == Len(s) >= Len(p) /\ SubSeq(s, 1, Len(p)) = p

\* Python "sub in s".
Contains(s, sub) ==
    \E i \in 0..(Len(s) - Len(sub)) : SubSeq(s, i + 1, i + Len(sub)) = sub

IsSpace(c) == c = " "

RECURSIVE lstrip(_)
lstrip(s) == IF s # <<>> /\ IsSpace(Head(s)) THEN lstrip(Tail(s)) ELSE s

RECURSIVE rstrip(_)
rstrip(s) ==
    IF s # <<>> /\ IsSpace(s[Len(s)]) THEN rstrip(SubSeq(s, 1, Len(s) - 1)) ELSE s

\* str.strip()
strip(s) == rstrip(lstrip(s))

\* str.replace(old, new): left to right, non-overlapping, literal.
RECURSIVE replace(_, _, _)
replace(s, old, new) ==
    IF Len(s) < Len(old) THEN s
    ELSE IF StartsWith(s, old)
         THEN new \o replace(SubSeq(s, Len(old) + 1, Len(s)), old, new)
         ELSE <<Head(s)>> \o replace(Tail(s), old, new)

UpperCase == <<"A","B","C","D","E","F","G","H","I","J","K","L","M",
               "N","O","P","Q","R","S","T","U","V","W","X","Y","Z">>

LowerCase == <<"a","b","c","d","e","f","g","h","i","j","k","l","m",
               "n","o","p","q","r","s","t","u","v","w","x","y","z">>

LowerChar(c) ==
    IF \E i \in 1..Len(UpperCase) : UpperCase[i] = c
    THEN LowerCase[CHOOSE i \in 1..Len(UpperCase) : UpperCase[i] = c]
    ELSE c

\* str.lower()
lower(s) == [i \in 1..Len(s) |-> LowerChar(s[i])]

PrivateLimited == <<"P","r","i","v","a","t","e"," ","L","i","m","i","t","e","d">>
PvtLtd         == <<"P","v","t"," ","L","t","d">>
PvtDotLtd      == <<"P","v","t","."," ","L","t","d">>
Limited        == <<"L","i","m","i","t","e","d">>
Ltd            == <<"L","t","d">>
LtdDot         == <<"L","t","d",".">>

\* The same chain without the final .lower(): a plausible slip.
NormalizeNoLower(x) ==
    IF ~x.isStr THEN <<>>
    ELSE replace(replace(replace(replace(strip(x.s),
             PrivateLimited, PvtLtd), PvtDotLtd, PvtLtd), Limited, Ltd), LtdDot, Ltd)

\* baseline_normalize_name, lines 32-42.
baseline_normalize_name(x) ==
    IF ~x.isStr THEN <<>>
    ELSE lower(replace(replace(replace(replace(strip(x.s),
             PrivateLimited, PvtLtd), PvtDotLtd, PvtLtd), Limited, Ltd), LtdDot, Ltd))

-----------------------------------------------------------------------------
(* Floats and timestamps                                                   *)

\* A float holding the number n (amounts: n units of 0.005).
Num(n) == [nan |-> FALSE, v |-> n]

\* float NaN: an unparseable amount, or the .days of NaT.
NaN == [nan |-> TRUE, v |-> 0]

\* a - b on floats: NaN if either is NaN.
fsub(a, b) == IF a.nan \/ b.nan THEN NaN ELSE Num(a.v - b.v)

\* abs(a)
fabs(a) == IF a.nan THEN NaN ELSE Num(IF a.v < 0 THEN 0 - a.v ELSE a.v)

\* a < b, a > b, a <= b on floats: False if either is NaN.
flt(a, b) == ~a.nan /\ ~b.nan /\ a.v < b.v
fgt(a, b) == ~a.nan /\ ~b.nan /\ a.v > b.v
fle(a, b) == ~a.nan /\ ~b.nan /\ a.v <= b.v

\* A Timestamp on day d, and NaT (an unparseable date).
Day(d) == [nat |-> FALSE, d |-> d]
NaT == [nat |-> TRUE, d |-> 0]

\* (a - b).days: the whole days of the Timedelta; NaT - x is NaT and NaT.days is nan.
days(a, b) == IF a.nat \/ b.nat THEN NaN ELSE Num(a.d - b.d)

\* 1e-2 in units of 0.005 (lines 85 and 101).
Tolerance == 2

\* window_days, line 79.
window_days == 7

-----------------------------------------------------------------------------
(* The three matchers, lines 64-117                                        *)

DirectRationale     == "Direct invoice_id found in memo/reference"
AmountDateRationale == "Exact amount and near-date (+-7 days)"
NameExactRationale  == "Name-normalized and amount match"
NamePartialRationale == "Partial payment - lower amount"
NameOverRationale   == "Overpayment - higher amount"

\* pay.get("memo", ""), pay.get("reference_number", ""): the default is used
\* only when the table has no such column; an empty cell is NaN.
get_memo(pay) == IF has_memo THEN pay.memo ELSE Str(<<>>)
get_reference_number(pay) ==
    IF has_reference_number THEN pay.reference_number ELSE Str(<<>>)

\* line 68
memo_text(pay) == str(get_memo(pay)) \o <<" ">> \o str(get_reference_number(pay))

\* line 70
direct_hit(pay, inv) == Contains(memo_text(pay), str(inv.invoice_id))

\* The window test with the sign of the difference kept: a plausible slip.
AmountDateNoAbs(pay, inv) ==
    /\ inv.currency = pay.currency
    /\ fle(days(pay.date, inv.date), Num(window_days))
    /\ flt(fabs(fsub(inv.amount, pay.amount)), Num(Tolerance))

\* lines 82-86
amount_date_hit(pay, inv) ==
    /\ inv.currency = pay.currency
    /\ fle(fabs(days(pay.date, inv.date)), Num(window_days))
    /\ flt(fabs(fsub(inv.amount, pay.amount)), Num(Tolerance))

\* The branches with 0.5 and 0.4 exchanged: a plausible slip.
NameAmountSwapped(pay, inv) ==
    IF baseline_normalize_name(pay.payer_name) # baseline_normalize_name(inv.customer_name)
    THEN 0
    ELSE IF flt(fabs(fsub(pay.amount, inv.amount)), Num(Tolerance)) THEN 7
    ELSE IF fgt(pay.amount, inv.amount) THEN 5
    ELSE IF flt(pay.amount, inv.amount) THEN 4
    ELSE 0

\* lines 96-111: the confidence (tenths) of the candidate, 0 when none is appended.
name_amount_conf(pay, inv) ==
    IF baseline_normalize_name(pay.payer_name) # baseline_normalize_name(inv.customer_name)
    THEN 0
    ELSE IF flt(fabs(fsub(pay.amount, inv.amount)), Num(Tolerance)) THEN 7
    ELSE IF flt(pay.amount, inv.amount) THEN 5
    ELSE IF fgt(pay.amount, inv.amount) THEN 4
    ELSE 0

name_amount_reason(conf) ==
    IF conf = 7 THEN NameExactRationale
    ELSE IF conf = 5 THEN NamePartialRationale
    ELSE NameOverRationale

\* The (payment, invoice) row positions in the order of the nested loops:
\* payments outside, invoices inside.
ScanOrder ==
    [k \in 1..(Len(payments) * Len(invoices)) |->
        <<((k - 1) \div Len(invoices)) + 1, ((k - 1) % Len(invoices)) + 1>>]

Candidate(pq, conf, why) ==
    [payment_id |-> payments[pq[1]].payment_id,
     invoice_id |-> invoices[pq[2]].invoice_id,
     confidence |-> conf,
     rationale  |-> why]

DirectIsHit(pq) == direct_hit(payments[pq[1]], invoices[pq[2]])
DirectRow(pq) == Candidate(pq, 10, DirectRationale)
\* lines 67-76
direct_candidates ==
    LET hits == SelectSeq(ScanOrder, DirectIsHit)
    IN [k \in 1..Len(hits) |-> DirectRow(hits[k])]

AmountDateIsHit(pq) == amount_date_hit(payments[pq[1]], invoices[pq[2]])
AmountDateRow(pq) == Candidate(pq, 8, AmountDateRationale)
\* lines 80-92
amount_date_candidates ==
    LET hits == SelectSeq(ScanOrder, AmountDateIsHit)
    IN [k \in 1..Len(hits) |-> AmountDateRow(hits[k])]

NameAmountIsHit(pq) == name_amount_conf(payments[pq[1]], invoices[pq[2]]) # 0
NameAmountRow(pq) ==
    Candidate(pq, name_amount_conf(payments[pq[1]], invoices[pq[2]]),
              name_amount_reason(name_amount_conf(payments[pq[1]], invoices[pq[2]])))
\* lines 95-117
name_amount_candidates ==
    LET hits == SelectSeq(ScanOrder, NameAmountIsHit)
    IN [k \in 1..Len(hits) |-> NameAmountRow(hits[k])]

-----------------------------------------------------------------------------
(* Aggregation, lines 119-123                                              *)

RECURSIVE Orderings(_)
\* Every sequence that lists the set S once each.
Orderings(S) ==
    IF S = {} THEN {<<>>}
    ELSE UNION { { <<x>> \o r : r \in Orderings(S \ {x}) } : x \in S }

RECURSIVE DescendingOrders(_, _)
\* Every listing of the rows S of ms that is descending in confidence: the rows
\* of the highest confidence in any order, then the rest likewise.
DescendingOrders(ms, S) ==
    IF S = {} THEN {<<>>}
    ELSE LET top == { k \in S : \A j \in S : ms[j].confidence <= ms[k].confidence }
         IN { a \o b : a \in Orderings(top), b \in DescendingOrders(ms, S \ top) }

Rows(ms, o) == [k \in 1..Len(o) |-> ms[o[k]]]

\* sort_values("confidence", ascending=False), line 122, with the default
\* kind="quicksort", which is not a stable sort: every ordering of the rows that
\* is descending in confidence is a possible result; rows of equal confidence
\* come in any order.
sort_values(ms) == { Rows(ms, o) : o \in DescendingOrders(ms, 1..Len(ms)) }

RECURSIVE KeepFirst(_, _)
KeepFirst(df, k) ==
    IF k > Len(df) THEN <<>>
    ELSE (IF \A j \in 1..(k - 1) : df[j].payment_id # df[k].payment_id
          THEN <<df[k]>> ELSE <<>>) \o KeepFirst(df, k + 1)

\* drop_duplicates(subset=["payment_id"], keep="first"), line 123
drop_duplicates(df) == KeepFirst(df, 1)

\* Lines 120-123 taken step by step: every frame a sort followed by the
\* de-duplication can give.
AggregateLiteral(ms) == { drop_duplicates(df) : df \in sort_values(ms) }

PaymentIdsOf(ms) == { ms[k].payment_id : k \in 1..Len(ms) }

\* The rows of a payment that carry its highest confidence.
TopRows(ms, pid) ==
    { k \in 1..Len(ms) :
        /\ ms[k].payment_id = pid
        /\ \A j \in 1..Len(ms) :
              ms[j].payment_id = pid => ms[j].confidence <= ms[k].confidence }

\* The rows of a payment that carry its lowest confidence.
BottomRows(ms, pid) ==
    { k \in 1..Len(ms) :
        /\ ms[k].payment_id = pid
        /\ \A j \in 1..Len(ms) :
              ms[j].payment_id = pid => ms[j].confidence >= ms[k].confidence }

RECURSIVE Picks(_, _)
\* Every set holding one row of C[p] for each payment p of P.
Picks(C, P) ==
    IF P = {} THEN {{}}
    ELSE LET p == CHOOSE q \in P : TRUE
         IN { {k} \cup r : k \in C[p], r \in Picks(C, P \ {p}) }

\* keep="last" in place of keep="first": a plausible slip.
AggregateKeepLast(ms) ==
    { Rows(ms, o) :
        o \in UNION { DescendingOrders(ms, K) : K \in Picks([p \in PaymentIdsOf(ms) |-> BottomRows(ms, p)],
                                                        PaymentIdsOf(ms)) } }

\* The sort without the de-duplication: a plausible slip.
AggregateNoDedup(ms) == sort_values(ms)

\* Lines 120-123, the sort and the de-duplication together.  The first row of
\* a payment in a descending order is one of its highest-confidence rows, any of
\* them when several tie, and the rows kept stay in descending order: the
\* possible frames are one top row per payment, arranged descending.  This is
\* AggregateLiteral computed without listing the orderings of the rows that
\* are dropped (AggregateAgrees).
aggregate(ms) ==
    { Rows(ms, o) :
        o \in UNION { DescendingOrders(ms, K) : K \in Picks([p \in PaymentIdsOf(ms) |-> TopRows(ms, p)],
                                                        PaymentIdsOf(ms)) } }

-----------------------------------------------------------------------------
(* Unmatched sets and remainder records, lines 125-149                     *)

matched_payment_ids(df) == { df[k].payment_id : k \in 1..Len(df) }
matched_invoice_ids(df) == { df[k].invoice_id : k \in 1..Len(df) }

\* line 128
unmatched_payments_of(df) ==
    LET Out(p) == p.payment_id \notin matched_payment_ids(df)
    IN SelectSeq(payments, Out)

\* Matched invoices read from every candidate, not the final frame: a plausible slip.
UnmatchedInvoicesOfCandidates(df) ==
    LET Out(i) == i.invoice_id \notin matched_invoice_ids(matches)
    IN SelectSeq(invoices, Out)

\* line 129
unmatched_invoices_of(df) ==
    LET Out(i) == i.invoice_id \notin matched_invoice_ids(df)
    IN SelectSeq(invoices, Out)

\* payments[payments["payment_id"] == id].iloc[0], line 135
payment_by_id(id) ==
    payments[CHOOSE k \in 1..Len(payments) :
                /\ payments[k].payment_id = id
                /\ \A j \in 1..(k - 1) : payments[j].payment_id # id]

\* invoices[invoices["invoice_id"] == id].iloc[0], line 136
invoice_by_id(id) ==
    invoices[CHOOSE k \in 1..Len(invoices) :
                /\ invoices[k].invoice_id = id
                /\ \A j \in 1..(k - 1) : invoices[j].invoice_id # id]

RemainderRecord(pay, inv) ==
    [invoice_id       |-> inv.invoice_id,
     customer_name    |-> inv.customer_name,
     invoice_amount   |-> inv.amount,
     payment_id       |-> pay.payment_id,
     payment_amount   |-> pay.amount,
     remaining_amount |-> fsub(inv.amount, pay.amount),
     currency         |-> inv.currency]

\* The loop run over every candidate instead of the final frame: a plausible slip.
RemainingOfAllCandidates(df) ==
    LET Under(row) == flt(payment_by_id(row.payment_id).amount,
                          invoice_by_id(row.invoice_id).amount)
        Rec(row) == RemainderRecord(payment_by_id(row.payment_id),
                                    invoice_by_id(row.invoice_id))
        hits == SelectSeq(matches, Under)
    IN [k \in 1..Len(hits) |-> Rec(hits[k])]

\* lines 134-147
remaining_of(df) ==
    LET Under(row) == flt(payment_by_id(row.payment_id).amount,
                          invoice_by_id(row.invoice_id).amount)
        Rec(row) == RemainderRecord(payment_by_id(row.payment_id),
                                    invoice_by_id(row.invoice_id))
        hits == SelectSeq(df, Under)
    IN [k \in 1..Len(hits) |-> Rec(hits[k])]

-----------------------------------------------------------------------------
(* match_records, step by step                                             *)

\* lines 66-76
DirectReference ==
    /\ pc = "direct"
    /\ matches' = matches \o direct_candidates
    /\ pc' = "amount_date"
    /\ UNCHANGED <<invoices, payments, has_memo, has_reference_number, matches_df,
                   unmatched_payments, unmatched_invoices, remaining_records>>
    /\ UNCHANGED normVars

\* lines 78-92
AmountDate ==
    /\ pc = "amount_date"
    /\ matches' = matches \o amount_date_candidates
    /\ pc' = "name_amount"
    /\ UNCHANGED <<invoices, payments, has_memo, has_reference_number, matches_df,
                   unmatched_payments, unmatched_invoices, remaining_records>>
    /\ UNCHANGED normVars

\* lines 94-117
NameAmount ==
    /\ pc = "name_amount"
    /\ matches' = matches \o name_amount_candidates
    /\ pc' = "aggregate"
    /\ UNCHANGED <<invoices, payments, has_memo, has_reference_number, matches_df,
                   unmatched_payments, unmatched_invoices, remaining_records>>
    /\ UNCHANGED normVars

\* lines 119-123
Aggregate ==
    /\ pc = "aggregate"
    /\ matches_df' \in aggregate(matches)
    /\ pc' = "derive"
    /\ UNCHANGED <<invoices, payments, has_memo, has_reference_number, matches,
                   unmatched_payments, unmatched_invoices, remaining_records>>
    /\ UNCHANGED normVars

\* lines 125-157
Derive ==
    /\ pc = "derive"
    /\ unmatched_payments' = unmatched_payments_of(matches_df)
    /\ unmatched_invoices' = unmatched_invoices_of(matches_df)
    /\ remaining_records' = remaining_of(matches_df)
    /\ pc' = "done"
    /\ UNCHANGED <<invoices, payments, has_memo, has_reference_number, matches,
                   matches_df>>
    /\ UNCHANGED normVars

Next ==
    \/ DirectReference
    \/ AmountDate
    \/ NameAmount
    \/ Aggregate
    \/ Derive

-----------------------------------------------------------------------------
(* Input tables                                                            *)

Digit == <<"1", "2", "3", "4", "5">>

\* Identifiers are unique keys: row k of a table carries the k-th identifier.
PaymentId(k) == Str(<<"P", Digit[k]>>)
InvoiceId(k) == Str(<<"I", Digit[k]>>)

Acme      == Str(<<"a","c","m","e"," ","p","v","t"," ","l","t","d">>)
AcmeLong  == Str(<<"A","c","m","e"," ","P","r","i","v","a","t","e"," ",
                   "L","i","m","i","t","e","d">>)
AcmeDot   == Str(<<" ","A","c","m","e"," ","P","v","t","."," ","L","t","d",".">>)
Bob       == Str(<<"B","o","b">>)

PaymentRow(k, a) ==
    [payment_id       |-> PaymentId(k),
     payer_name       |-> a.payer_name,
     memo             |-> a.memo,
     reference_number |-> a.reference_number,
     amount           |-> a.amount,
     currency         |-> a.currency,
     date             |-> a.date]

InvoiceRow(k, a) ==
    [invoice_id    |-> InvoiceId(k),
     customer_name |-> a.customer_name,
     amount        |-> a.amount,
     currency      |-> a.currency,
     date          |-> a.date]

\* Tables of 1..n rows whose cells other than the key are drawn from A.
PaymentTables(A, n) ==
    UNION { { [k \in 1..m |-> PaymentRow(k, f[k])] : f \in [1..m -> A] } : m \in 1..n }

InvoiceTables(A, n) ==
    UNION { { [k \in 1..m |-> InvoiceRow(k, f[k])] : f \in [1..m -> A] } : m \in 1..n }

StartMatcher ==
    /\ matches = <<>>
    /\ matches_df = <<>>
    /\ unmatched_payments = <<>>
    /\ unmatched_invoices = <<>>
    /\ remaining_records = <<>>
    /\ pc = "direct"

IdleNorm ==
    /\ name = NaNCell
    /\ once = <<>>
    /\ twice = <<>>
    /\ npc = "idle"

PaymentCells(nm, memo, ref, amt, cur, dt) ==
    [payer_name |-> nm, memo |-> memo, reference_number |-> ref,
     amount |-> amt, currency |-> cur, date |-> dt]

InvoiceCells(nm, amt, cur, dt) ==
    [customer_name |-> nm, amount |-> amt, currency |-> cur, date |-> dt]

NoText  == Str(<<>>)
I2Text  == Str(<<"I", "2">>)
I1I2Text == Str(<<"p","a","i","d"," ","I","1"," ","I","2">>)

\* Whole runs.  Payments of one payer that name no invoice, one invoice or two
\* invoices in the memo, with an amount or without one; invoices of that payer or
\* of another customer that the payments pay nearly (within the tolerance, under
\* or over), partly, too much or not at all, and one invoice in another currency.  The dates agree
\* throughout.
RunPayments ==
    { PaymentCells(Acme, NoText,   NaNCell, Num(3), "USD", Day(0)),
      PaymentCells(Acme, I2Text,   NaNCell, Num(3), "USD", Day(0)),
      PaymentCells(Acme, I1I2Text, NaNCell, Num(5), "USD", Day(0)),
      PaymentCells(Acme, NoText,   NaNCell, NaN,    "USD", Day(0)),
      PaymentCells(Acme, I2Text,   NaNCell, NaN,    "USD", Day(0)),
      PaymentCells(Acme, NoText,   NaNCell, Num(5), "USD", Day(0)) }

RunInvoices ==
    { InvoiceCells(AcmeLong, Num(4), "USD", Day(0)),
      InvoiceCells(AcmeLong, Num(1), "USD", Day(0)),
      InvoiceCells(Bob,      Num(5), "USD", Day(0)),
      InvoiceCells(AcmeLong, Num(7), "USD", Day(0)),
      InvoiceCells(AcmeLong, Num(3), "EUR", Day(0)) }

Init ==
    /\ payments \in PaymentTables(RunPayments, MaxPayments)
    /\ invoices \in InvoiceTables(RunInvoices, MaxInvoices)
    /\ has_memo = TRUE
    /\ has_reference_number = FALSE
    /\ StartMatcher
    /\ IdleNorm

Spec == Init /\ [][Next]_vars

\* The frames of aggregate are those of the sort followed by the de-duplication.
AggregateAgrees ==
    pc = "aggregate" => aggregate(matches) = AggregateLiteral(matches)

\* Runs for the direct-reference matcher: the memo and reference_number columns
\* present or not, their cells empty (NaN) or text, and invoices under
\* identifiers of which one contains another, one holds a space and one is a
\* plain word.  No cell carries an amount or a name, so no other matcher fires.
DirectPayments ==
    { PaymentCells(NaNCell, m, r, NaN, "USD", NaT) :
        m \in { NaNCell, Str(<<"I">>), Str(<<"r","e","f"," ","I","1","2">>) },
        r \in { NaNCell, Str(<<"1">>) } }

DirectInvoiceIds ==
    { Str(<<"I","1">>), Str(<<"I","1","2">>), Str(<<"I"," ","1">>), Str(<<"a","n">>) }

DirectInvoiceTables ==
    { [k \in 1..Len(o) |->
          [invoice_id |-> o[k], customer_name |-> NaNCell, amount |-> NaN,
           currency |-> "USD", date |-> NaT]] :
        o \in UNION { Orderings(S) :
                        S \in { T \in SUBSET DirectInvoiceIds :
                                  Cardinality(T) \in 1..MaxInvoices } } }

InitDirect ==
    /\ payments \in PaymentTables(DirectPayments, MaxPayments)
    /\ invoices \in DirectInvoiceTables
    /\ has_memo \in BOOLEAN
    /\ has_reference_number \in BOOLEAN
    /\ StartMatcher
    /\ IdleNorm

SpecDirect == InitDirect /\ [][Next]_vars

\* Runs for the amount/date matcher: payments on day 8 or without a date, of 2
\* units or without an amount, against one invoice in the same or another
\* currency (or the same in another case), dated up to 8 days before or after or
\* undated, of an amount up to 2 units below or above or unparseable.  The names
\* differ, so the name matcher stays silent.
AmountDatePayments ==
    { PaymentCells(Bob, NaNCell, NaNCell, a, "USD", d) :
        a \in { NaN, Num(2) }, d \in { NaT, Day(8) } }

AmountDateInvoices ==
    { InvoiceCells(Acme, a, c, d) :
        a \in { NaN, Num(0), Num(1), Num(2), Num(3), Num(4) },
        c \in { "USD", "EUR", "usd" },
        d \in { NaT, Day(0), Day(1), Day(8), Day(15), Day(16) } }

InitAmountDate ==
    /\ payments \in PaymentTables(AmountDatePayments, MaxPayments)
    /\ invoices \in { <<InvoiceRow(1, a)>> : a \in AmountDateInvoices }
    /\ has_memo = TRUE
    /\ has_reference_number = TRUE
    /\ StartMatcher
    /\ IdleNorm

SpecAmountDate == InitAmountDate /\ [][Next]_vars

\* Runs for the name/amount matcher: payments of a payer named in normal form,
\* named otherwise or not named, of 2 units or without an amount, against one
\* invoice whose customer is written in several ways, is another one, is blank
\* or is absent, of an amount up to 2 units below or above or unparseable.  The
\* currencies differ, so the amount/date matcher stays silent.
NameAmountPayments ==
    { PaymentCells(n, NaNCell, NaNCell, a, "USD", Day(0)) :
        n \in { NaNCell, Acme, Bob }, a \in { NaN, Num(2) } }

NameAmountInvoices ==
    { InvoiceCells(n, a, "EUR", Day(0)) :
        n \in { NaNCell, Str(<<" ">>), AcmeLong, AcmeDot, Bob },
        a \in { NaN, Num(0), Num(1), Num(2), Num(3), Num(4) } }

InitNameAmount ==
    /\ payments \in PaymentTables(NameAmountPayments, MaxPayments)
    /\ invoices \in { <<InvoiceRow(1, a)>> : a \in NameAmountInvoices }
    /\ has_memo = TRUE
    /\ has_reference_number = TRUE
    /\ StartMatcher
    /\ IdleNorm

SpecNameAmount == InitNameAmount /\ [][Next]_vars

-----------------------------------------------------------------------------
(* Properties of match_records                                             *)

Matched  == pc \in {"derive", "done"}
PayIdx   == 1..Len(payments)
InvIdx   == 1..Len(invoices)
CandIdx  == 1..Len(matches)
FinalIdx == 1..Len(matches_df)

\* The candidates generated for payment row p, and those for the pair (p, i).
CandidatesOf(p) == { k \in CandIdx : matches[k].payment_id = payments[p].payment_id }

CandidatesOfPair(p, i) ==
    { k \in CandidatesOf(p) : matches[k].invoice_id = invoices[i].invoice_id }

FinalOfPair(p, i) ==
    { k \in FinalIdx : /\ matches_df[k].payment_id = payments[p].payment_id
                       /\ matches_df[k].invoice_id = invoices[i].invoice_id }

MaxOf(S) == CHOOSE x \in S : \A y \in S : y <= x
MinOf(S) == CHOOSE x \in S : \A y \in S : x <= y

\* C1: every final match carries the highest confidence among all candidates
\* the three matchers generated for its payment_id.
FinalConfidenceIsMax ==
    Matched =>
        \A k \in FinalIdx : \A p \in PayIdx :
            matches_df[k].payment_id = payments[p].payment_id =>
                matches_df[k].confidence =
                    MaxOf({ matches[j].confidence : j \in CandidatesOf(p) })

\* A final match of confidence 1.0 for a payment that also had candidates of
\* 0.8 and of a name-based confidence.
FinalConfidenceIsMaxWitness ==
    /\ pc = "done"
    /\ \E k \in FinalIdx : \E p \in PayIdx :
          /\ matches_df[k].payment_id = payments[p].payment_id
          /\ matches_df[k].confidence = 10
          /\ \E j \in CandidatesOf(p) : matches[j].confidence = 8
          /\ \E j \in CandidatesOf(p) : matches[j].confidence < 8

\* C2: no two final matches share a payment_id, and the final match set holds
\* exactly one row for every payment with at least one candidate and none for a
\* payment without candidates.
OneFinalPerMatchedPayment ==
    Matched =>
        /\ \A j, k \in FinalIdx :
              matches_df[j].payment_id = matches_df[k].payment_id => j = k
        /\ \A p \in PayIdx :
              Cardinality({ k \in FinalIdx :
                              matches_df[k].payment_id = payments[p].payment_id })
                = (IF CandidatesOf(p) = {} THEN 0 ELSE 1)
        /\ \A k \in FinalIdx :
              \E p \in PayIdx : matches_df[k].payment_id = payments[p].payment_id

\* Two payments, one with several candidates and a single final row, the other
\* with no candidate and no row.
OneFinalPerMatchedPaymentWitness ==
    /\ pc = "done"
    /\ \E p, q \in PayIdx :
          /\ Cardinality(CandidatesOf(p)) >= 3
          /\ CandidatesOf(q) = {}
          /\ Len(matches_df) = 1

\* C3: when several candidates of a payment tie on its highest confidence, the
\* final match kept is the one generated first (the sort is stable).
TieKeepsEarliestGenerated ==
    Matched =>
        \A k \in FinalIdx : \A p \in PayIdx :
            matches_df[k].payment_id = payments[p].payment_id =>
                matches_df[k] = matches[MinOf(TopRows(matches, payments[p].payment_id))]

\* C4: a remainder record exists for a (payment, invoice) pair exactly when the
\* pair is a final match whose payment amount is below the invoice amount (both
\* present); there is one record for it, and its remaining_amount is
\* invoice.amount - payment.amount, above zero.
RemainderIffFinalUnderpaid ==
    pc = "done" =>
        /\ \A p \in PayIdx : \A i \in InvIdx :
              Cardinality({ r \in 1..Len(remaining_records) :
                              /\ remaining_records[r].payment_id = payments[p].payment_id
                              /\ remaining_records[r].invoice_id = invoices[i].invoice_id })
                = (IF /\ FinalOfPair(p, i) # {}
                      /\ ~payments[p].amount.nan
                      /\ ~invoices[i].amount.nan
                      /\ payments[p].amount.v < invoices[i].amount.v
                   THEN 1 ELSE 0)
        /\ \A r \in 1..Len(remaining_records) :
              \E p \in PayIdx : \E i \in InvIdx :
                  /\ remaining_records[r].payment_id = payments[p].payment_id
                  /\ remaining_records[r].invoice_id = invoices[i].invoice_id
                  /\ ~remaining_records[r].remaining_amount.nan
                  /\ remaining_records[r].remaining_amount.v
                        = invoices[i].amount.v - payments[p].amount.v
                  /\ remaining_records[r].remaining_amount.v > 0

\* A run with a remainder record, an underpaid candidate that was discarded, a
\* final match that overpays and a final match of a payment without amount.
RemainderIffFinalUnderpaidWitness ==
    /\ pc = "done"
    /\ Len(remaining_records) = 1
    /\ \E p \in PayIdx : \E i \in InvIdx :
          /\ CandidatesOfPair(p, i) # {}
          /\ FinalOfPair(p, i) = {}
          /\ flt(payments[p].amount, invoices[i].amount)
    /\ \E p \in PayIdx : \E i \in InvIdx :
          /\ FinalOfPair(p, i) # {}
          /\ (payments[p].amount.nan \/ fgt(payments[p].amount, invoices[i].amount))

\* C5: no remainder record is emitted for a final match whose amounts differ by
\* less than the 0.01 tolerance within which the matchers treat them as equal.
NoRemainderInsideTolerance ==
    pc = "done" =>
        \A r \in 1..Len(remaining_records) :
            ~flt(fabs(fsub(remaining_records[r].invoice_amount,
                           remaining_records[r].payment_amount)), Num(Tolerance))

\* C6: a payment is in unmatched_payments exactly when its payment_id is in no
\* final match, an invoice is in unmatched_invoices exactly when its invoice_id
\* is in no final match, and the unmatched tables hold rows of the inputs only.
UnmatchedAreComplements ==
    pc = "done" =>
        /\ \A p \in PayIdx :
              (\E u \in 1..Len(unmatched_payments) : unmatched_payments[u] = payments[p])
                <=> ~(\E k \in FinalIdx :
                         matches_df[k].payment_id = payments[p].payment_id)
        /\ \A i \in InvIdx :
              (\E u \in 1..Len(unmatched_invoices) : unmatched_invoices[u] = invoices[i])
                <=> ~(\E k \in FinalIdx :
                         matches_df[k].invoice_id = invoices[i].invoice_id)
        /\ \A u \in 1..Len(unmatched_payments) :
              \E p \in PayIdx : unmatched_payments[u] = payments[p]
        /\ \A u \in 1..Len(unmatched_invoices) :
              \E i \in InvIdx : unmatched_invoices[u] = invoices[i]

\* An invoice that appeared only in discarded candidates and is unmatched, beside
\* an underpaid invoice that two payments resolved to and is not.
UnmatchedAreComplementsWitness ==
    /\ pc = "done"
    /\ \E p \in PayIdx : \E i \in InvIdx :
          /\ CandidatesOfPair(p, i) # {}
          /\ \A k \in FinalIdx : matches_df[k].invoice_id # invoices[i].invoice_id
          /\ \E u \in 1..Len(unmatched_invoices) : unmatched_invoices[u] = invoices[i]
    /\ \E j, k \in FinalIdx :
          /\ j # k
          /\ matches_df[j].invoice_id = matches_df[k].invoice_id
          /\ \E r \in 1..Len(remaining_records) :
                remaining_records[r].invoice_id = matches_df[j].invoice_id
          /\ \A u \in 1..Len(unmatched_invoices) :
                unmatched_invoices[u].invoice_id # matches_df[j].invoice_id

\* The text the claim searches: memo and reference_number joined by one space,
\* an absent one (no column, or an empty cell) counting as the empty string.
TextOrEmpty(x) == IF x.isStr THEN x.s ELSE <<>>

SearchText(pay) ==
    TextOrEmpty(get_memo(pay)) \o <<" ">> \o TextOrEmpty(get_reference_number(pay))

\* C8: the direct-reference matcher emits a confidence-1.0 candidate for a pair
\* exactly when the invoice_id, as text, is a substring of the payment's memo
\* and reference_number joined by a single space, an absent memo or
\* reference_number contributing the empty string.
DirectIffIdInSearchText ==
    pc # "direct" =>
        \A p \in PayIdx : \A i \in InvIdx :
            (\E k \in CandidatesOfPair(p, i) : matches[k].confidence = 10)
              <=> Contains(SearchText(payments[p]), invoices[i].invoice_id.s)

\* C9: the amount/date matcher emits a confidence-0.8 candidate for a pair
\* exactly when the currencies are equal, both dates are present and at most 7
\* days apart in either direction, and both amounts are present and less than
\* 0.01 apart; a null amount or date makes the pair never match.
AmountDateIffCloseAndEqual ==
    pc \notin {"direct", "amount_date"} =>
        \A p \in PayIdx : \A i \in InvIdx :
            Cardinality({ k \in CandidatesOfPair(p, i) : matches[k].confidence = 8 })
              = (IF /\ payments[p].currency = invoices[i].currency
                    /\ ~payments[p].date.nat
                    /\ ~invoices[i].date.nat
                    /\ payments[p].date.d - invoices[i].date.d \in (0 - 7)..7
                    /\ ~payments[p].amount.nan
                    /\ ~invoices[i].amount.nan
                    /\ payments[p].amount.v - invoices[i].amount.v
                          \in (1 - Tolerance)..(Tolerance - 1)
                 THEN 1 ELSE 0)

\* A run where one payment matched an invoice dated 7 days after it, with
\* amounts that differ inside the tolerance, and another payment, undated,
\* matched nothing.
AmountDateIffCloseAndEqualWitness ==
    /\ pc = "done"
    /\ \E p, q \in PayIdx :
          /\ invoices[1].date = Day(15)
          /\ payments[p].date = Day(8)
          /\ invoices[1].amount = Num(3)
          /\ \E k \in CandidatesOfPair(p, 1) : matches[k].confidence = 8
          /\ payments[q].date.nat
          /\ ~payments[q].amount.nan
          /\ CandidatesOfPair(q, 1) = {}

NameConfidences == {7, 5, 4}

\* C10: the name/amount matcher emits exactly one candidate for a pair when the
\* normalised payer_name equals the normalised customer_name (two absent names
\* are equal) and both amounts are present: 0.7 if the amounts are less than
\* 0.01 apart, otherwise 0.5 if the payment is smaller, otherwise 0.4 if it is
\* larger; otherwise it emits none.
NameAmountOneCandidate ==
    pc \notin {"direct", "amount_date", "name_amount"} =>
        \A p \in PayIdx : \A i \in InvIdx :
            LET emitted == { k \in CandidatesOfPair(p, i) :
                               matches[k].confidence \in NameConfidences }
                same == baseline_normalize_name(payments[p].payer_name)
                          = baseline_normalize_name(invoices[i].customer_name)
                pa == payments[p].amount
                ia == invoices[i].amount
            IN IF same /\ ~pa.nan /\ ~ia.nan
               THEN /\ Cardinality(emitted) = 1
                    /\ \A k \in emitted :
                          matches[k].confidence =
                              (IF pa.v - ia.v \in (1 - Tolerance)..(Tolerance - 1) THEN 7
                               ELSE IF pa.v < ia.v THEN 5 ELSE 4)
               ELSE emitted = {}

\* A run where an unnamed payment got a 0.5 candidate against an unnamed
\* invoice, and a named payment of the same table got none.
NameAmountOneCandidateWitness ==
    /\ pc = "done"
    /\ \E p \in PayIdx :
          /\ ~payments[p].payer_name.isStr
          /\ ~invoices[1].customer_name.isStr
          /\ \E k \in CandidatesOfPair(p, 1) : matches[k].confidence = 5
    /\ \E q \in PayIdx :
          /\ payments[q].payer_name = Bob
          /\ CandidatesOfPair(q, 1) = {}


-----------------------------------------------------------------------------
(* Stand-alone runs of the normaliser                                      *)

Fragments == { <<"P","r","i","v","a","t","e">>, <<" ">>, Limited,
               <<"P","v","t">>, <<".">>, Ltd, <<"A","c","m","e">> }

NameTexts == { Concat(fs) : fs \in UNION { [1..n -> Fragments] : n \in 0..MaxFrags } }

NameInputs == { Str(s) : s \in NameTexts } \cup { NaNCell }

IdleMatcher ==
    /\ invoices = <<>>
    /\ payments = <<>>
    /\ has_memo = FALSE
    /\ has_reference_number = FALSE
    /\ matches = <<>>
    /\ matches_df = <<>>
    /\ unmatched_payments = <<>>
    /\ unmatched_invoices = <<>>
    /\ remaining_records = <<>>
    /\ pc = "idle"

InitNorm ==
    /\ IdleMatcher
    /\ name \in NameInputs
    /\ once = <<>>
    /\ twice = <<>>
    /\ npc = "start"

NormalizeOnce ==
    /\ npc = "start"
    /\ once' = baseline_normalize_name(name)
    /\ npc' = "once"
    /\ UNCHANGED <<name, twice>>
    /\ UNCHANGED matcherVars

NormalizeAgain ==
    /\ npc = "once"
    /\ twice' = baseline_normalize_name(Str(once))
    /\ npc' = "twice"
    /\ UNCHANGED <<name, once>>
    /\ UNCHANGED matcherVars

NextNorm == NormalizeOnce \/ NormalizeAgain

SpecNorm == InitNorm /\ [][NextNorm]_vars

\* C7: name normalisation is idempotent: normalising the result of
\* baseline_normalize_name again returns the same string, for every input,
\* an absent (non-str) input included, which normalises to the empty string.
NormalizeIdempotent ==
    /\ npc \in {"once", "twice"} /\ ~name.isStr => once = <<>>
    /\ npc = "twice" => twice = once

\* A run where a suffix rule rewrote the name and the second pass has been made.
NormalizeIdempotentWitness ==
    /\ npc = "twice"
    /\ name.isStr
    /\ Contains(name.s, LtdDot)
    /\ once # lower(strip(name.s))

=============================================================================
